---- MODULE Spec2Model ----
(***************************************************************************)
(* A model of src/eval.py: the filename key extractor, the recursive       *)
(* image scan, the ground-truth / prediction pairing of                    *)
(* EvalDataset.prepare_data, the two resize policies, the bulk pre-resize  *)
(* pass, the orchestrator eval() and the batch-weighted metric loops.      *)
(*                                                                         *)
(* A filename is a sequence of one-character strings.  The character       *)
(* "sup2" stands for U+00B2 (superscript two), a character for which       *)
(* Python's str.isdigit() is true although it is not one of 0..9.          *)
(***************************************************************************)
EXTENDS Integers, Sequences, FiniteSets, TLC

VARIABLES
    pc,          \* position of the running operation
    fname,       \* extract_id_from_filename: the argument
    idres,       \* extract_id_from_filename: the outcome
    gtTree,      \* directory listing of gt_folder, in os.scandir order
    predTree,    \* directory listing of pred_folder, in os.scandir order
    gt_files,    \* prepare_data: scan result for gt_folder
    pred_files,  \* prepare_data: scan result for pred_folder
    gt_dict,     \* prepare_data: key -> ground-truth entry
    tuples,      \* prepare_data: the pair list under construction
    printed,     \* prepare_data: the "Cannot find gt file" lines printed
    cursor,      \* prepare_data: index of the next file of the running loop
    raised,      \* prepare_data: the filename of the AssertionError, <<>> if none
    data,        \* EvalDataset.data, set when prepare_data returns
    entry,       \* the operation that was called: "eval", or "direct" for a part of it
    fs,          \* the directories: gt_folder, pred_folder and the resized siblings,
                 \* and the order the first two are listed in
    gt_folder,   \* eval: args.gt_folder
    paired,      \* eval: args.paired
    img,         \* eval: the size of the sampled prediction image
    cp,          \* copy_resize_gt: its arguments, new_folder and the files left
    writes,      \* copy_resize_gt: img.save calls of the running call
    runs,        \* copy_resize_gt: one record per call that returned
    consumed,    \* eval: per metric that returned, the ground-truth folder it read
                 \* and the heights of the ground-truth images it read
    height,      \* EvalDataset.height
    dlen,        \* len(EvalDataset.data)
    item,        \* EvalDataset.__getitem__: the last access and its outcome
    total,       \* metric loop: len(dataloader.dataset)
    batch_size,  \* metric loop: args.batch_size of the DataLoader
    metric,      \* metric loop: which of psnr, ssim, lpips runs
    served,      \* metric loop: samples the DataLoader has delivered
    score,       \* metric loop: the accumulator
    batches,     \* metric loop: value and size of each batch delivered
    result       \* metric loop: the value returned

idVars   == <<fname, idres>>
pairVars == <<gtTree, predTree, gt_files, pred_files, gt_dict, tuples, printed,
              cursor, raised, data>>
evalVars == <<entry, fs, gt_folder, paired, img, cp, writes, runs, consumed>>
itemVars == <<height, dlen, item>>
metricVars == <<total, batch_size, metric, served, score, batches, result>>
vars     == <<pc, idVars, pairVars, evalVars, itemVars, metricVars>>

(***************************************************************************)
(* Bounds.                                                                 *)
(***************************************************************************)
MaxChunks == 4      \* a generated filename is at most this many chunks
MaxFiles  == 2      \* entries of one directory listing
MaxImages == 2      \* entries of an image folder of the orchestrator
MaxRuns   == 2      \* calls of copy_resize_gt on the same arguments
MaxDim    == 4      \* widths, heights and target heights of __getitem__
MaxPairs  == 2      \* length of the dataset __getitem__ reads
MaxTotal  == 13     \* samples of the dataset of a metric loop
MaxBatch  == 10     \* nominal batch size of a metric loop
MaxEvalBatch == 2   \* args.batch_size of a run of eval

Min(a, b) == IF a < b THEN a ELSE b

(***************************************************************************)
(* Characters and strings.                                                 *)
(***************************************************************************)
DecimalDigits == {"0", "1", "2", "3", "4", "5", "6", "7", "8", "9"}

\* c.isdigit(): the decimal digits and the other digit characters of Unicode.
IsDigit(c) == c \in DecimalDigits \cup {"sup2"}

\* the literal "inshop"
Tag == <<"i", "n", "s", "h", "o", "p">>

\* `t in s` on strings
Contains(s, t) ==
    \E i \in 1..(Len(s) - Len(t) + 1) : SubSeq(s, i, i + Len(t) - 1) = t

\* s.split(".")[0]: the text before the first '.', the whole of s if none
SplitDot0(s) ==
    LET dots == {i \in 1..Len(s) : s[i] = "."}
    IN  IF dots = {} THEN s
        ELSE SubSeq(s, 1, (CHOOSE i \in dots : \A j \in dots : i <= j) - 1)

\* index of the last '.' of s that os.path.splitext takes as the start of the
\* extension, 0 if there is none (leading dots of the name do not count)
SplitextDot(s) ==
    LET dots == {i \in 1..Len(s) : s[i] = "."}
    IN  IF dots = {} THEN 0
        ELSE LET last == CHOOSE i \in dots : \A j \in dots : j <= i
             IN  IF \E j \in 1..(last - 1) : s[j] # "." THEN last ELSE 0

\* os.path.splitext(name)[1]
SplitextExt(s) ==
    IF SplitextDot(s) = 0 THEN <<>> ELSE SubSeq(s, SplitextDot(s), Len(s))

\* the set postfix={'.jpg', '.png'} passed by prepare_data
Postfix == {<<".", "j", "p", "g">>, <<".", "p", "n", "g">>}

(***************************************************************************)
(* EvalDataset.extract_id_from_filename.                                   *)
(***************************************************************************)
NotCalled   == [st |-> "none", key |-> <<>>]
Returned(k) == [st |-> "returned", key |-> k]
\* `assert False`: the call raises AssertionError instead of returning
Raised      == [st |-> "raised", key |-> <<>>]

\* the loop of lines 31-35: index of the first character that isdigit(), 0 for None
FirstDigit(s) ==
    LET digs == {i \in 1..Len(s) : IsDigit(s[i])}
    IN  IF digs = {} THEN 0 ELSE CHOOSE i \in digs : \A j \in digs : i <= j

\* a variant of Slice8 with the end of the slice off by one
Slice8OffByOne(s, start) == SubSeq(s, start, Min(start + 8, Len(s)))

\* filename[start_i:start_i+8]
Slice8(s, start) == SubSeq(s, start, Min(start + 7, Len(s)))

TaggedKey(s) == SplitDot0(s)

\* a variant of the extractor that returns an empty key where the code asserts
ExtractWithoutAssert(s) ==
    IF Contains(s, Tag) THEN Returned(TaggedKey(s))
    ELSE IF FirstDigit(s) = 0 THEN Returned(<<>>)
    ELSE Returned(Slice8(s, FirstDigit(s)))

extract_id_from_filename(s) ==
    IF Contains(s, Tag) THEN Returned(TaggedKey(s))
    ELSE IF FirstDigit(s) = 0 THEN Raised
    ELSE Returned(Slice8(s, FirstDigit(s)))

(***************************************************************************)
(* Inputs of the extractor: concatenations of at most MaxChunks chunks.    *)
(***************************************************************************)
Chunks == { Tag, <<"i", "n">>, <<"s", "h", "o", "p">>, <<"a">>, <<"sup2">>,
            <<"0", "1", "2", "3">>, <<".">>, <<".", "p", "n", "g">>, <<"7">> }

RECURSIVE Concat(_)
Concat(cs) == IF cs = <<>> THEN <<>> ELSE Head(cs) \o Concat(Tail(cs))

Filenames ==
    {Concat(cs) : cs \in UNION {[1..n -> Chunks] : n \in 1..MaxChunks}}

(***************************************************************************)
(* scan_files_in_dir over a directory of depth one.                        *)
(***************************************************************************)
GtNames   == { <<"a", "1", ".", "p", "n", "g">>, <<"b", "1", ".", "p", "n", "g">>,
               <<"2", ".", "j", "p", "g">>, <<"x", ".", "p", "n", "g">> }
PredNames == { <<"1", ".", "p", "n", "g">>, <<"3", ".", "j", "p", "g">>,
               <<"y", ".", "j", "p", "g">>, <<"1", ".", "t", "x", "t">> }
DirName   == <<"d">>
\* a directory path is the sequence of its components
GtFolder   == << <<"g", "t">> >>
PredFolder == << <<"p", "r", "e", "d">> >>

FileEntry(n)     == [kind |-> "file", name |-> n, sub |-> <<>>]
DirEntry(subs)   == [kind |-> "dir", name |-> DirName, sub |-> subs]

\* the listings a directory can have: distinct names, at most MaxFiles entries,
\* a subdirectory holding at most one file
Entries(Names) ==
    {FileEntry(n) : n \in Names} \cup {DirEntry(<<>>)}
        \cup {DirEntry(<<n>>) : n \in Names}
Listings(Names) ==
    {l \in UNION {[1..k -> Entries(Names)] : k \in 0..MaxFiles} :
        \A i, j \in 1..Len(l) : i # j => l[i].name # l[j].name}

\* an os.DirEntry: its name and its path
Scanned(dir, n) == [name |-> n, path |-> [dir |-> dir, name |-> n]]

KeepsFile(n) == SplitextExt(n) \in Postfix

RECURSIVE ScanNames(_, _)
ScanNames(dir, names) ==
    IF names = <<>> THEN <<>>
    ELSE (IF KeepsFile(Head(names)) THEN <<Scanned(dir, Head(names))>> ELSE <<>>)
         \o ScanNames(dir, Tail(names))

RECURSIVE scan_files_in_dir(_, _)
scan_files_in_dir(dir, listing) ==
    IF listing = <<>> THEN <<>>
    ELSE LET e == Head(listing)
         IN  (IF e.kind = "file" THEN ScanNames(dir, <<e.name>>)
              ELSE ScanNames(dir \o <<e.name>>, e.sub))
             \o scan_files_in_dir(dir, Tail(listing))

(***************************************************************************)
(* Initial states.                                                         *)
(***************************************************************************)
EmptyDict == [k \in {} |-> <<>>]
Unset     == [set |-> FALSE, val |-> <<>>]

IdleId ==
    /\ fname = <<>>
    /\ idres = NotCalled

(***************************************************************************)
(* The image folders of eval() and copy_resize_gt.  A folder maps the names *)
(* os.listdir returns to what Image.open finds there.                      *)
(***************************************************************************)
\* str(n) for a number of one digit
Str(n) == << <<"0", "1", "2", "3", "4", "5", "6", "7", "8", "9">>[n + 1] >>

\* the files of an image folder: "1.png", "2.png", ...; a prediction folder
\* can also hold "x.png", a name extract_id_from_filename finds no key in
ImageName(n) == Str(n) \o <<".", "p", "n", "g">>
Keyless      == <<"x", ".", "p", "n", "g">>
ImageNames   == {ImageName(n) : n \in 1..MaxImages}

Picture(w, h) == [img |-> TRUE, w |-> w, h |-> h]
\* a file that is no image: Image.open raises on it
NoPicture     == [img |-> FALSE, w |-> 0, h |-> 0]

\* the sizes of the images in the folders: two heights, one width per folder,
\* and another width for the files an earlier pass left in a sibling
Heights == {2, 3}
Widths  == [gt |-> 4, pred |-> 3, old |-> 5]

Folders(Names, Kinds) ==
    UNION {[names -> Kinds] : names \in SUBSET Names}

GtFolders   == Folders(ImageNames,
                       {Picture(Widths.gt, h) : h \in Heights} \cup {NoPicture})
PredFolders == Folders(ImageNames \cup {Keyless},
                       {Picture(Widths.pred, h) : h \in Heights})

EmptyFolder == [n \in {} |-> NoPicture]

\* the orders os.listdir and os.scandir can list the files of a folder in
Orderings(names) ==
    {l \in [1..Cardinality(names) -> names] :
        \A i, j \in 1..Cardinality(names) : i # j => l[i] # l[j]}

\* the directories of a run: the two folders, the order each is listed in for as
\* long as it is not written to, and the resized siblings of gt_folder
Disk(g, p, r) ==
    {[gt |-> g, pred |-> p, resized |-> r, gt_order |-> go, pred_order |-> po] :
        go \in Orderings(DOMAIN g), po \in Orderings(DOMAIN p)}

\* the resized siblings an earlier run can have left: none, or the one of a
\* height h, whose files all have that height
Siblings ==
    {[h \in {} |-> EmptyFolder]}
        \cup UNION {{[x \in {h} |-> d] :
                        d \in Folders(ImageNames, {Picture(Widths.old, h)})} :
                        h \in Heights}

\* a folder name: gt_folder itself (suffix 0) or f"{gt_folder}_{height}"
OriginalGt     == [base |-> "gt", suffix |-> 0]
NewFolder(f, h) == [base |-> f.base, suffix |-> h]

\* the path of a folder name: gt_folder, or gt_folder + "_" + str(height)
DirPath(f) ==
    IF f.suffix = 0 THEN GtFolder ELSE << GtFolder[1] \o <<"_">> \o Str(f.suffix) >>

\* os.listdir(gt_folder) for the folder eval was given
Listed(F, f) == F.gt_order

Exists(F, f)  == f.suffix = 0 \/ f.suffix \in DOMAIN F.resized
Content(F, f) == IF f.suffix = 0 THEN F.gt ELSE F.resized[f.suffix]

PictureHeights(d) == {d[n].h : n \in {m \in DOMAIN d : d[m].img}}

NoCall == [folder |-> OriginalGt, height |-> 0, width |-> 0,
           new_folder |-> OriginalGt, todo |-> <<>>, caller |-> "none"]

IdleEval ==
    /\ entry = "direct"
    /\ fs = [gt |-> EmptyFolder, pred |-> EmptyFolder,
             resized |-> [h \in {} |-> EmptyFolder],
             gt_order |-> <<>>, pred_order |-> <<>>]
    /\ gt_folder = OriginalGt
    /\ paired = FALSE
    /\ img = NoPicture
    /\ cp = NoCall
    /\ writes = 0
    /\ runs = <<>>
    /\ consumed = <<>>

NoItem == [st |-> "none", idx |-> 0, gt_in |-> NoPicture, pred_in |-> NoPicture,
           gt |-> [c |-> 0, h |-> 0, w |-> 0], pred |-> [c |-> 0, h |-> 0, w |-> 0]]

IdleItem ==
    /\ height = 0
    /\ dlen = 0
    /\ item = NoItem

NoResult == [st |-> "none", num |-> 0, den |-> 1]

IdleMetric ==
    /\ total = 0
    /\ batch_size = 0
    /\ metric = "none"
    /\ served = 0
    /\ score = 0
    /\ batches = <<>>
    /\ result = NoResult

IdlePair ==
    /\ gtTree = <<>>
    /\ predTree = <<>>
    /\ gt_files = <<>>
    /\ pred_files = <<>>
    /\ gt_dict = EmptyDict
    /\ tuples = <<>>
    /\ printed = <<>>
    /\ cursor = 0
    /\ raised = <<>>
    /\ data = Unset

InitId ==
    /\ pc = "id_call"
    /\ fname \in Filenames
    /\ idres = NotCalled
    /\ IdlePair
    /\ IdleEval
    /\ IdleItem
    /\ IdleMetric

InitPair ==
    /\ pc = "prep_scan_gt"
    /\ gtTree \in Listings(GtNames)
    /\ predTree \in Listings(PredNames)
    /\ gt_files = <<>>
    /\ pred_files = <<>>
    /\ gt_dict = EmptyDict
    /\ tuples = <<>>
    /\ printed = <<>>
    /\ cursor = 0
    /\ raised = <<>>
    /\ data = Unset
    /\ height = 1024
    /\ dlen = 0
    /\ item = NoItem
    /\ IdleId
    /\ IdleEval
    /\ IdleMetric

(***************************************************************************)
(* Actions: one call of extract_id_from_filename.                          *)
(***************************************************************************)
ExtractId ==
    /\ pc = "id_call"
    /\ idres' = extract_id_from_filename(fname)
    /\ pc' = "id_done"
    /\ UNCHANGED <<fname, pairVars, evalVars, itemVars, metricVars>>

(***************************************************************************)
(* Actions: EvalDataset.prepare_data.                                      *)
(***************************************************************************)
DictPut(d, k, v) == [x \in DOMAIN d \cup {k} |-> IF x = k THEN v ELSE d[x]]

\* line 41
PrepScanGt ==
    /\ pc = "prep_scan_gt"
    /\ gt_files' = scan_files_in_dir(DirPath(gt_folder), gtTree)
    /\ cursor' = 1
    /\ pc' = "prep_gt_dict"
    /\ UNCHANGED <<gtTree, predTree, pred_files, gt_dict, tuples, printed, raised, data>>
    /\ UNCHANGED <<idVars, evalVars, itemVars, metricVars>>

\* a variant of GtDictEntry in which the first file of a key is kept
GtDictKeepFirst(d, k, file) == IF k \in DOMAIN d THEN d ELSE DictPut(d, k, file)

\* lines 42-43, one iteration of the dict comprehension on a key that was extracted
GtDictEntry(d, k, file) == DictPut(d, k, file)

PrepGtDictStep ==
    /\ pc = "prep_gt_dict"
    /\ cursor <= Len(gt_files)
    /\ LET file == gt_files[cursor]
           r    == extract_id_from_filename(file.name)
       IN  IF r.st = "returned"
           THEN /\ gt_dict' = GtDictEntry(gt_dict, r.key, file)
                /\ cursor' = cursor + 1
                /\ pc' = pc
                /\ UNCHANGED raised
           ELSE /\ pc' = "prep_raised"
                /\ raised' = file.name
                /\ UNCHANGED <<gt_dict, cursor>>
    /\ UNCHANGED <<gtTree, predTree, gt_files, pred_files, tuples, printed, data>>
    /\ UNCHANGED <<idVars, evalVars, itemVars, metricVars>>

\* lines 44-47
PrepScanPred ==
    /\ pc = "prep_gt_dict"
    /\ cursor > Len(gt_files)
    /\ pred_files' = scan_files_in_dir(PredFolder, predTree)
    /\ cursor' = 1
    /\ pc' = "prep_pred"
    /\ UNCHANGED <<gtTree, predTree, gt_files, gt_dict, tuples, printed, raised, data>>
    /\ UNCHANGED <<idVars, evalVars, itemVars, metricVars>>

\* a variant of PairOf with the two paths in the other order
PairOfSwapped(d, pred_id, pred_file) == <<pred_file.path, d[pred_id].path>>

\* line 53
PairOf(d, pred_id, pred_file) == <<d[pred_id].path, pred_file.path>>

\* lines 48-53, one iteration
PrepPredStep ==
    /\ pc = "prep_pred"
    /\ cursor <= Len(pred_files)
    /\ LET pred_file == pred_files[cursor]
           r         == extract_id_from_filename(pred_file.name)
       IN  IF r.st # "returned"
           THEN /\ pc' = "prep_raised"
                /\ raised' = pred_file.name
                /\ UNCHANGED <<tuples, printed, cursor>>
           ELSE /\ pc' = pc
                /\ cursor' = cursor + 1
                /\ UNCHANGED raised
                /\ IF r.key \notin DOMAIN gt_dict
                   THEN /\ printed' = Append(printed, pred_file.path)
                        /\ UNCHANGED tuples
                   ELSE /\ tuples' = Append(tuples, PairOf(gt_dict, r.key, pred_file))
                        /\ UNCHANGED printed
    /\ UNCHANGED <<gtTree, predTree, gt_files, pred_files, gt_dict, data>>
    /\ UNCHANGED <<idVars, evalVars, itemVars, metricVars>>

\* line 54 and the assignment of line 22; in eval the constructor call of line
\* 158 returns, the DataLoader of lines 159-161 wraps the dataset and line 167 is
\* next
PrepReturn ==
    /\ pc = "prep_pred"
    /\ cursor > Len(pred_files)
    /\ data' = [set |-> TRUE, val |-> tuples]
    /\ dlen' = Len(tuples)
    /\ pc' = IF entry = "eval" THEN "clean_fid" ELSE "prep_done"
    /\ UNCHANGED <<gtTree, predTree, gt_files, pred_files, gt_dict, tuples, printed,
                   cursor, raised>>
    /\ UNCHANGED <<height, item>>
    /\ UNCHANGED <<idVars, evalVars, metricVars>>


(***************************************************************************)
(* Actions: copy_resize_gt.                                                *)
(***************************************************************************)
InitCopy ==
    /\ pc = "copy_mkdir"
    /\ \E g \in GtFolders, r \in Siblings : fs \in Disk(g, EmptyFolder, r)
    /\ \E h \in Heights :
          cp = [folder |-> OriginalGt, height |-> h, width |-> Widths.pred,
                new_folder |-> OriginalGt, todo |-> <<>>, caller |-> "direct"]
    /\ entry = "direct"
    /\ gt_folder = OriginalGt
    /\ paired = FALSE
    /\ img = NoPicture
    /\ writes = 0
    /\ runs = <<>>
    /\ consumed = <<>>
    /\ IdleId
    /\ IdlePair
    /\ IdleItem
    /\ IdleMetric

\* lines 94-97: name the sibling, create it if it is missing, list gt_folder
CopyMkdir ==
    /\ pc = "copy_mkdir"
    /\ LET new_folder == NewFolder(cp.folder, cp.height)
       IN  /\ fs' = IF Exists(fs, new_folder) THEN fs
                    ELSE [fs EXCEPT !.resized =
                            [h \in DOMAIN fs.resized \cup {cp.height} |->
                                IF h = cp.height THEN EmptyFolder ELSE fs.resized[h]]]
           /\ cp' = [cp EXCEPT !.new_folder = new_folder,
                               !.todo = Listed(fs, cp.folder)]
    /\ writes' = 0
    /\ pc' = "copy_loop"
    /\ UNCHANGED <<entry, gt_folder, paired, img, runs, consumed>>
    /\ UNCHANGED <<idVars, pairVars, itemVars, metricVars>>

\* a variant of AlreadyThere that never skips a file
AlreadyThereNever(target, file) == FALSE

\* line 98: os.path.exists(os.path.join(new_folder, file))
AlreadyThere(target, file) == file \in DOMAIN target

\* line 101: img.resize((width, height), Image.LANCZOS)
ExactResize(picture, w, h) == Picture(w, h)

\* lines 97-102, one iteration
CopyStep ==
    /\ pc = "copy_loop"
    /\ cp.todo # <<>>
    /\ LET file   == Head(cp.todo)
           target == Content(fs, cp.new_folder)
           source == Content(fs, cp.folder)[file]
       IN  IF AlreadyThere(target, file)
           THEN /\ cp' = [cp EXCEPT !.todo = Tail(cp.todo)]
                /\ UNCHANGED <<fs, writes, pc>>
           ELSE IF ~source.img
           THEN /\ pc' = "copy_raised"
                /\ UNCHANGED <<fs, writes, cp>>
           ELSE /\ fs' = [fs EXCEPT !.resized[cp.height] =
                            [n \in DOMAIN target \cup {file} |->
                                IF n = file
                                THEN ExactResize(source, cp.width, cp.height)
                                ELSE target[n]]]
                /\ writes' = writes + 1
                /\ cp' = [cp EXCEPT !.todo = Tail(cp.todo)]
                /\ UNCHANGED pc
    /\ UNCHANGED <<entry, gt_folder, paired, img, runs, consumed>>
    /\ UNCHANGED <<idVars, pairVars, itemVars, metricVars>>

\* line 103, and line 154 when eval is the caller
CopyReturn ==
    /\ pc = "copy_loop"
    /\ cp.todo = <<>>
    /\ runs' = Append(runs, [writes |-> writes, ret |-> cp.new_folder,
                             content |-> Content(fs, cp.new_folder)])
    /\ IF cp.caller = "eval"
       THEN /\ gt_folder' = cp.new_folder
            /\ pc' = "form_dataset"
       ELSE /\ pc' = "copy_done"
            /\ UNCHANGED gt_folder
    /\ UNCHANGED <<entry, fs, paired, img, cp, writes, consumed>>
    /\ UNCHANGED <<idVars, pairVars, itemVars, metricVars>>

\* the pass is run again on the same folder, height and width
CopyAgain ==
    /\ pc = "copy_done"
    /\ Len(runs) < MaxRuns
    /\ pc' = "copy_mkdir"
    /\ UNCHANGED evalVars
    /\ UNCHANGED <<idVars, pairVars, itemVars, metricVars>>

NextCopy == CopyMkdir \/ CopyStep \/ CopyReturn \/ CopyAgain
SpecCopy == InitCopy /\ [][NextCopy]_vars

(***************************************************************************)
(* Actions: eval.                                                          *)
(***************************************************************************)
InitEval ==
    /\ pc = "eval_start"
    /\ entry = "eval"
    /\ \E g \in GtFolders, p \in PredFolders, r \in Siblings : fs \in Disk(g, p, r)
    /\ gt_folder = OriginalGt
    /\ paired \in BOOLEAN
    /\ img = NoPicture
    /\ cp = NoCall
    /\ writes = 0
    /\ runs = <<>>
    /\ consumed = <<>>
    /\ batch_size \in 1..MaxEvalBatch
    /\ total = 0
    /\ metric = "none"
    /\ served = 0
    /\ score = 0
    /\ batches = <<>>
    /\ result = NoResult
    /\ IdleId
    /\ IdlePair
    /\ IdleItem

\* line 150
NeedsResize(pred_img, gt_img) == pred_img.h # gt_img.h

\* lines 146-154: os.listdir(...)[0] is the first entry listed; an empty folder
\* raises IndexError and an entry that is no image makes Image.open raise
EvalSample ==
    /\ pc = "eval_start"
    /\ IF fs.pred_order = <<>> \/ Listed(fs, gt_folder) = <<>>
       THEN /\ pc' = "eval_raised"
            /\ UNCHANGED <<img, cp>>
       ELSE LET pred_sample == fs.pred_order[1]
                gt_sample   == Listed(fs, gt_folder)[1]
                gt_img      == Content(fs, gt_folder)[gt_sample]
            IN  IF ~gt_img.img
                THEN /\ pc' = "eval_raised"
                     /\ UNCHANGED <<img, cp>>
                ELSE /\ img' = fs.pred[pred_sample]
                     /\ IF NeedsResize(img', gt_img)
                        THEN /\ cp' = [folder |-> gt_folder, height |-> img'.h,
                                       width |-> img'.w, new_folder |-> gt_folder,
                                       todo |-> <<>>, caller |-> "eval"]
                             /\ pc' = "copy_mkdir"
                        ELSE /\ pc' = "form_dataset"
                             /\ UNCHANGED cp
    /\ UNCHANGED <<entry, fs, gt_folder, paired, writes, runs, consumed>>
    /\ UNCHANGED <<idVars, pairVars, itemVars, metricVars>>

ListingOf(order) == [i \in 1..Len(order) |-> FileEntry(order[i])]

\* line 158, EvalDataset(args.gt_folder, args.pred_folder, img.height): lines
\* 19-21 of the constructor, which then runs prepare_data on the two folders as
\* they are now; a resized sibling is listed in any order
EvalFormDataset ==
    /\ pc = "form_dataset"
    /\ height' = img.h
    /\ IF gt_folder = OriginalGt
       THEN gtTree' = ListingOf(fs.gt_order)
       ELSE \E g \in Orderings(DOMAIN Content(fs, gt_folder)) : gtTree' = ListingOf(g)
    /\ predTree' = ListingOf(fs.pred_order)
    /\ pc' = "prep_scan_gt"
    /\ UNCHANGED <<gt_files, pred_files, gt_dict, tuples, printed, cursor, raised,
                   data>>
    /\ UNCHANGED <<dlen, item>>
    /\ UNCHANGED <<idVars, evalVars, metricVars>>

\* a metric that is given a folder reads the images of args.gt_folder
Reads(by) ==
    consumed' = Append(consumed, [by |-> by, folder |-> gt_folder,
                                  heights |-> PictureHeights(Content(fs, gt_folder))])

\* line 167
EvalCleanFid ==
    /\ pc = "clean_fid"
    /\ Reads("Clean-FID")
    /\ pc' = "clean_kid"
    /\ UNCHANGED <<entry, fs, gt_folder, paired, img, cp, writes, runs>>
    /\ UNCHANGED <<idVars, pairVars, itemVars, metricVars>>

\* line 168
EvalCleanKid ==
    /\ pc = "clean_kid"
    /\ Reads("Clean-KID")
    /\ pc' = "paired"
    /\ UNCHANGED <<entry, fs, gt_folder, paired, img, cp, writes, runs>>
    /\ UNCHANGED <<idVars, pairVars, itemVars, metricVars>>

\* a call metric(dataloader) of lines 171, 173, 175 starts
StartsMetric(name) ==
    /\ metric' = name
    /\ total' = dlen
    /\ served' = 0
    /\ score' = 0
    /\ batches' = <<>>
    /\ result' = NoResult
    /\ pc' = "metric_loop"
    /\ UNCHANGED batch_size

\* lines 170-171: psnr is called when args.paired is set, line 177 is next
\* otherwise
EvalPaired ==
    /\ pc = "paired"
    /\ IF paired THEN StartsMetric("psnr")
       ELSE /\ pc' = "pytorch_fid"
            /\ UNCHANGED metricVars
    /\ UNCHANGED <<idVars, pairVars, evalVars, itemVars>>

\* the ground-truth images of the pairs, which every loop over the dataset opens
PairedHeights ==
    {Content(fs, gt_folder)[data.val[i][1].name].h : i \in 1..Len(data.val)}

\* lines 171-176: a paired metric has returned; ssim follows psnr, lpips follows
\* ssim and line 177 follows lpips
EvalNextMetric ==
    /\ pc = "metric_done"
    /\ entry = "eval"
    /\ consumed' = Append(consumed, [by |-> metric, folder |-> gt_folder,
                                     heights |-> PairedHeights])
    /\ IF metric = "psnr" THEN StartsMetric("ssim")
       ELSE IF metric = "ssim" THEN StartsMetric("lpips")
       ELSE /\ pc' = "pytorch_fid"
            /\ UNCHANGED metricVars
    /\ UNCHANGED <<entry, fs, gt_folder, paired, img, cp, writes, runs>>
    /\ UNCHANGED <<idVars, pairVars, itemVars>>

\* lines 177-188
EvalPytorchFid ==
    /\ pc = "pytorch_fid"
    /\ Reads("PyTorch-FID")
    /\ pc' = "eval_done"
    /\ UNCHANGED <<entry, fs, gt_folder, paired, img, cp, writes, runs>>
    /\ UNCHANGED <<idVars, pairVars, itemVars, metricVars>>

(***************************************************************************)
(* Actions: EvalDataset.resize and EvalDataset.__getitem__.                *)
(***************************************************************************)
InitItem ==
    /\ pc = "item"
    /\ height \in 1..MaxDim
    /\ dlen \in 1..MaxPairs
    /\ item = NoItem
    /\ IdleId
    /\ IdlePair
    /\ IdleEval
    /\ IdleMetric

\* a variant of NewWidth that rounds to the nearest integer, halves to even
NewWidthRounded(w, h, target) ==
    LET q == (w * target) \div h
        r == (w * target) % h
    IN  IF 2 * r < h THEN q
        ELSE IF 2 * r > h THEN q + 1
        ELSE IF q % 2 = 0 THEN q ELSE q + 1

\* line 58: int(w * self.height / h)
NewWidth(w, h, target) == (w * target) \div h

\* a variant of Resized that keeps the height of the source image
ResizedKeepingHeight(picture, target) ==
    LET new_w == NewWidth(picture.w, picture.h, target)
    IN  IF new_w < 1 THEN NoPicture ELSE Picture(new_w, picture.h)

\* lines 56-59; Image.resize raises ValueError for a width below 1, which the
\* result NoPicture stands for
Resized(picture, target) ==
    LET new_w == NewWidth(picture.w, picture.h, target)
    IN  IF new_w < 1 THEN NoPicture ELSE Picture(new_w, target)

\* lines 68-71: the second resize of an image whose height is not the target
ResizedAgain(picture, target) ==
    IF picture.img /\ picture.h # target THEN Resized(picture, target) ELSE picture

\* transforms.ToTensor: channels x height x width
ToTensor(picture) == [c |-> 3, h |-> picture.h, w |-> picture.w]

\* lines 65-74 for an index in range, gt_in and pred_in being what Image.open
\* finds at the two paths: a file that is no image makes Image.open raise, and
\* the first resize that raises ends the access
ItemOutcome(idx, gt_in, pred_in, target) ==
    LET gt1   == Resized(gt_in, target)
        pred1 == Resized(pred_in, target)
        gt2   == ResizedAgain(gt1, target)
        pred2 == ResizedAgain(pred1, target)
    IN  IF ~gt_in.img \/ ~pred_in.img
        THEN [NoItem EXCEPT !.st = "raised", !.idx = idx,
                            !.gt_in = gt_in, !.pred_in = pred_in]
        ELSE IF ~gt1.img \/ ~pred1.img \/ ~gt2.img \/ ~pred2.img
        THEN [NoItem EXCEPT !.st = "raised", !.idx = idx,
                            !.gt_in = gt_in, !.pred_in = pred_in]
        ELSE [st |-> "returned", idx |-> idx, gt_in |-> gt_in,
              pred_in |-> pred_in, gt |-> ToTensor(gt2), pred |-> ToTensor(pred2)]

\* lines 64-74; data[idx] raises IndexError past the end
GetItem ==
    /\ pc = "item"
    /\ \E idx \in 0..dlen, gw, gh, pw, ph \in 1..MaxDim :
          item' = IF idx >= dlen
                  THEN [NoItem EXCEPT !.st = "index_error", !.idx = idx]
                  ELSE ItemOutcome(idx, Picture(gw, gh), Picture(pw, ph), height)
    /\ pc' = "item_done"
    /\ UNCHANGED <<height, dlen>>
    /\ UNCHANGED <<idVars, pairVars, evalVars, metricVars>>

\* the tensors are not cached: the caller drops them and may access again
DropItem ==
    /\ pc = "item_done"
    /\ item' = NoItem
    /\ pc' = "item"
    /\ UNCHANGED <<height, dlen>>
    /\ UNCHANGED <<idVars, pairVars, evalVars, metricVars>>

NextItem == GetItem \/ DropItem
SpecItem == InitItem /\ [][NextItem]_vars

(***************************************************************************)
(* Actions: the loops of psnr, ssim and lpips.  A batch value is a number  *)
(* of tenths, and a result is the fraction num / den of tenths.            *)
(***************************************************************************)
BatchValues == {5, 8}

InitMetric ==
    /\ pc = "metric_loop"
    /\ total \in 0..MaxTotal
    /\ batch_size \in 1..MaxBatch
    /\ metric \in {"psnr", "ssim", "lpips"}
    /\ served = 0
    /\ score = 0
    /\ batches = <<>>
    /\ result = NoResult
    /\ IdleId
    /\ IdlePair
    /\ IdleEval
    /\ IdleItem

\* Image.open on a path of a pair of the dataset of eval
Open(path) ==
    IF path.dir = PredFolder THEN fs.pred[path.name]
    ELSE Content(fs, gt_folder)[path.name]

\* dataset[idx] for the dataset of eval, idx counted from 0
Fetched(idx) ==
    ItemOutcome(idx, Open(data.val[idx + 1][1]), Open(data.val[idx + 1][2]), height)

\* DataLoader(batch_size=..., shuffle=False, drop_last=False): the size of the
\* next batch when `done` of `n` samples were delivered
LoaderBatch(n, done, nominal) == Min(nominal, n - done)

\* a variant of Weighted that weights by the nominal batch size
WeightedByNominal(value, size, nominal) == value * nominal

\* lines 113, 124, 140: metric(batch) * batch_size with batch_size = gt.size(0)
Weighted(value, size, nominal) == value * size

\* one iteration of the loop of lines 110-113, 121-124, 133-140.  In eval the
\* DataLoader fetches the samples of the batch from the dataset in index order,
\* and the first access that raises ends the loop and eval; a loader that is
\* passed to the metric directly delivers its batches.  The metric itself is
\* taken to return a value on every batch it is given.
MetricBatch ==
    /\ pc = "metric_loop"
    /\ served < total
    /\ LET size    == LoaderBatch(total, served, batch_size)
           failing == IF entry = "eval"
                      THEN {i \in served..(served + size - 1) :
                                Fetched(i).st # "returned"}
                      ELSE {}
       IN  IF failing # {}
           THEN /\ item' = Fetched(CHOOSE i \in failing : \A j \in failing : i <= j)
                /\ pc' = "metric_raised"
                /\ UNCHANGED <<score, batches, served>>
           ELSE /\ \E value \in BatchValues :
                      /\ score' = score + Weighted(value, size, batch_size)
                      /\ batches' = Append(batches, [value |-> value, size |-> size])
                /\ served' = served + size
                /\ item' = IF entry = "eval" THEN Fetched(served + size - 1) ELSE item
                /\ UNCHANGED pc
    /\ UNCHANGED <<total, batch_size, metric, result>>
    /\ UNCHANGED <<height, dlen>>
    /\ UNCHANGED <<idVars, pairVars, evalVars>>

\* lines 114, 125, 141: the division raises ZeroDivisionError on an empty dataset
MetricReturn ==
    /\ pc = "metric_loop"
    /\ served >= total
    /\ IF total = 0
       THEN /\ result' = [NoResult EXCEPT !.st = "raised"]
            /\ pc' = "metric_raised"
       ELSE /\ result' = [st |-> "returned", num |-> score, den |-> total]
            /\ pc' = "metric_done"
    /\ UNCHANGED <<total, batch_size, metric, served, score, batches>>
    /\ UNCHANGED <<idVars, pairVars, evalVars, itemVars>>

NextMetric == MetricBatch \/ MetricReturn
SpecMetric == InitMetric /\ [][NextMetric]_vars

\* eval runs the pre-resize pass, the pairing and the metric loops itself
NextEval ==
    \/ EvalSample \/ CopyMkdir \/ CopyStep \/ CopyReturn
    \/ EvalFormDataset
    \/ PrepScanGt \/ PrepGtDictStep \/ PrepScanPred \/ PrepPredStep \/ PrepReturn
    \/ EvalCleanFid \/ EvalCleanKid
    \/ EvalPaired \/ MetricBatch \/ MetricReturn \/ EvalNextMetric
    \/ EvalPytorchFid
SpecEval == InitEval /\ [][NextEval]_vars

NextId   == ExtractId
NextPair == PrepScanGt \/ PrepGtDictStep \/ PrepScanPred \/ PrepPredStep \/ PrepReturn

SpecId   == InitId /\ [][NextId]_vars
SpecPair == InitPair /\ [][NextPair]_vars
SpecIdPair == (InitId \/ InitPair) /\ [][NextId \/ NextPair]_vars

Init == InitId \/ InitPair \/ InitCopy \/ InitEval \/ InitItem \/ InitMetric
Next == NextId \/ NextPair \/ NextCopy \/ NextEval \/ NextItem \/ NextMetric
Spec == Init /\ [][Next]_vars

(***************************************************************************)
(* Properties of the key extractor and of the pairing.                     *)
(***************************************************************************)
KeyOf(f) == extract_id_from_filename(f.name).key

HasDecimalDigit(s) == \E i \in 1..Len(s) : s[i] \in DecimalDigits

\* the name with only its extension removed (os.path.splitext(name)[0])
Stem(s) == IF SplitextDot(s) = 0 THEN s ELSE SubSeq(s, 1, SplitextDot(s) - 1)

\* neither the tag nor a character the extractor takes for a digit
Unrecognised(s) == ~Contains(s, Tag) /\ \A i \in 1..Len(s) : ~IsDigit(s[i])

PathsOf(files) == [i \in 1..Len(files) |-> files[i].path]

\* C1: when prepare_data returns, the pair list is the prediction files whose key
\* is a key of the ground-truth mapping, in scan order, each paired with the path
\* the mapping holds for its key; the other prediction files are printed once
\* each, in scan order, and are in no pair; no ground-truth file is printed.
C1_PairsFollowPredictions ==
    pc = "prep_done" =>
        LET gtKeys  == {KeyOf(gt_files[j]) : j \in 1..Len(gt_files)}
            Hit(f)  == KeyOf(f) \in gtKeys
            Miss(f) == KeyOf(f) \notin gtKeys
            matched == SelectSeq(pred_files, Hit)
            missed  == SelectSeq(pred_files, Miss)
        IN  /\ data.set
            /\ Len(data.val) = Len(matched)
            /\ \A i \in 1..Len(matched) :
                  /\ data.val[i][2] = matched[i].path
                  /\ data.val[i][1] = gt_dict[KeyOf(matched[i])].path
                  /\ \E j \in 1..Len(gt_files) :
                        /\ KeyOf(gt_files[j]) = KeyOf(matched[i])
                        /\ gt_files[j].path = data.val[i][1]
            /\ printed = PathsOf(missed)
            /\ \A i \in 1..Len(data.val), j \in 1..Len(printed) :
                  data.val[i][2] # printed[j]
            /\ \A g \in 1..Len(gt_files), j \in 1..Len(printed) :
                  gt_files[g].path # printed[j]

\* one pair, one unmatched prediction printed, one ground-truth file unused
C1_Witness ==
    /\ pc = "prep_done"
    /\ Len(data.val) = 1
    /\ Len(printed) = 1
    /\ \E g \in 1..Len(gt_files) :
          \A p \in 1..Len(pred_files) : KeyOf(gt_files[g]) # KeyOf(pred_files[p])

\* C2: for a name that contains "inshop" the extractor returns the stem, the
\* name with only its extension removed.
C2_TaggedKeyIsStem ==
    (pc = "id_done" /\ Contains(fname, Tag)) => idres = Returned(Stem(fname))

\* C3 as stated: for a name without the tag that has a decimal digit, the
\* extractor returns the characters from the leftmost decimal digit on, 8 of them
\* if 8 remain and all that remain otherwise; it does not raise.
C3_DecimalDigitWindow ==
    (pc = "id_done" /\ ~Contains(fname, Tag) /\ HasDecimalDigit(fname)) =>
        /\ idres.st = "returned"
        /\ \E p \in 1..Len(fname) :
              /\ fname[p] \in DecimalDigits
              /\ \A j \in 1..(p - 1) : fname[j] \notin DecimalDigits
              /\ Len(idres.key) = Min(8, Len(fname) - (p - 1))
              /\ \A i \in 1..Len(idres.key) : idres.key[i] = fname[p - 1 + i]

\* C3 amended: for a name without the tag that has a character for which
\* isdigit() is true, a decimal digit or another digit character, the extractor
\* returns the characters from the leftmost such character on, 8 of them if 8
\* remain and all that remain otherwise; it does not raise.
C3_DigitWindow ==
    (pc = "id_done" /\ ~Contains(fname, Tag) /\ \E i \in 1..Len(fname) : IsDigit(fname[i])) =>
        /\ idres.st = "returned"
        /\ \E p \in 1..Len(fname) :
              /\ IsDigit(fname[p])
              /\ \A j \in 1..(p - 1) : ~IsDigit(fname[j])
              /\ Len(idres.key) = Min(8, Len(fname) - (p - 1))
              /\ \A i \in 1..Len(idres.key) : idres.key[i] = fname[p - 1 + i]

\* a key of exactly 8 characters cut from a longer rest, which starts at a digit
\* character that is no decimal digit although a decimal digit follows it
C3_Witness ==
    /\ pc = "id_done"
    /\ ~Contains(fname, Tag)
    /\ HasDecimalDigit(fname)
    /\ idres.st = "returned"
    /\ Len(idres.key) = 8
    /\ Len(fname) - FirstDigit(fname) + 1 > 8
    /\ idres.key[1] \notin DecimalDigits
    /\ IsDigit(idres.key[1])
    /\ \E i \in 2..8 : idres.key[i] \in DecimalDigits

AllScanned ==
    LET g == scan_files_in_dir(GtFolder, gtTree)
        p == scan_files_in_dir(PredFolder, predTree)
    IN  {g[i].name : i \in 1..Len(g)} \cup {p[i].name : i \in 1..Len(p)}

\* C4 as stated: a name with neither the tag nor a decimal digit makes the
\* extractor raise, and no pair list is produced when a scanned file has such a name.
C4_NoDecimalDigitRaises ==
    /\ (pc = "id_done" /\ ~Contains(fname, Tag) /\ ~HasDecimalDigit(fname))
          => idres.st = "raised"
    /\ data.set =>
          \A n \in AllScanned : Contains(n, Tag) \/ HasDecimalDigit(n)

\* C4 amended: a name with neither the tag nor a character for which isdigit() is
\* true makes the extractor raise; prepare_data stops at the first scanned file
\* with such a name, and the pair list is set only when no scanned file has one.
C4_UnrecognisedIsFatal ==
    /\ (pc = "id_done" /\ Unrecognised(fname)) => idres.st = "raised"
    /\ data.set => (pc = "prep_done" /\ \A n \in AllScanned : ~Unrecognised(n))
    /\ pc = "prep_raised" => (~data.set /\ Unrecognised(raised))
    /\ pc \in {"prep_gt_dict", "prep_pred"} =>
          \A j \in 1..(cursor - 1) :
              ~Unrecognised((IF pc = "prep_pred" THEN pred_files ELSE gt_files)[j].name)

\* a pair had been built when a later prediction name raised: nothing is returned
C4_Witness ==
    /\ pc = "prep_raised"
    /\ Unrecognised(raised)
    /\ Len(tuples) >= 1
    /\ ~data.set

\* the prediction file of the i-th pair
PredOfPair(i) ==
    CHOOSE k \in 1..Len(pred_files) : pred_files[k].path = tuples[i][2]

\* C5: ground-truth files with the same key raise no error, and a prediction with
\* that key is paired with the last of them in scan order, with no earlier one.
C5_LastWriteWins ==
    /\ pc = "prep_raised" => Unrecognised(raised)
    /\ pc \in {"prep_pred", "prep_done"} =>
          /\ raised = <<>>
          /\ \A i \in 1..Len(tuples) :
                LET k    == KeyOf(pred_files[PredOfPair(i)])
                    same == {j \in 1..Len(gt_files) : KeyOf(gt_files[j]) = k}
                    last == CHOOSE j \in same : \A m \in same : m <= j
                IN  /\ same # {}
                    /\ tuples[i][1] = gt_files[last].path
                    /\ \A j \in same \ {last} : tuples[i][1] # gt_files[j].path

\* two ground-truth files share the key of a paired prediction
C5_Witness ==
    /\ pc = "prep_done"
    /\ \E i \in 1..Len(tuples) :
          \E j1, j2 \in 1..Len(gt_files) :
              /\ j1 < j2
              /\ KeyOf(gt_files[j1]) = KeyOf(gt_files[j2])
              /\ KeyOf(gt_files[j2]) = KeyOf(pred_files[PredOfPair(i)])
              /\ tuples[i][1] = gt_files[j2].path

(***************************************************************************)
(* Properties of the orchestrator and of the bulk pre-resize pass.         *)
(***************************************************************************)
MetricStages == {"clean_fid", "clean_kid", "paired", "metric_loop", "metric_done",
                 "pytorch_fid", "eval_done"}

\* C6: once the metrics run, every ground-truth image has the height of the
\* prediction image; when the images of gt_folder do not, args.gt_folder is the
\* resized sibling, and every metric has read images of that height only.
C6_GtHeightEnforced ==
    /\ pc \in MetricStages =>
          /\ PictureHeights(Content(fs, gt_folder)) \subseteq {img.h}
          /\ ~(PictureHeights(fs.gt) \subseteq {img.h})
                => gt_folder = NewFolder(OriginalGt, img.h)
    /\ \A i \in 1..Len(consumed) : consumed[i].heights \subseteq {img.h}

\* C7: after a call of copy_resize_gt has returned, a further call on the same
\* folder, height and width saves no file, leaves the sibling directory as the
\* first call left it, does not raise, and returns the same directory name.
C7_SecondPassIsIdle ==
    (cp.caller = "direct" /\ Len(runs) >= 1) =>
        /\ pc = "copy_loop" => writes = 0
        /\ pc # "copy_raised"
        /\ Content(fs, runs[1].ret) = runs[1].content
        /\ \A i \in 2..Len(runs) :
              /\ runs[i].writes = 0
              /\ runs[i].ret = runs[1].ret
              /\ runs[i].content = runs[1].content

\* the first call saved a file and a second call has returned
C7_Witness ==
    /\ pc = "copy_done"
    /\ Len(runs) = 2
    /\ runs[1].writes >= 1
    /\ runs[2].writes = 0
    /\ runs[2].ret = NewFolder(OriginalGt, cp.height)

(***************************************************************************)
(* Properties of the per-item resize and of the metric loops.              *)
(***************************************************************************)
InRange == item.st # "none" /\ item.idx < dlen

\* C8: a paired metric returns, for a dataset of N >= 1 samples, the sum over the
\* batches of value x size divided by N, where every batch but the last has the
\* nominal size, the last has what is left, and the sizes add up to N.
RECURSIVE SumWeighted(_)
SumWeighted(seq) ==
    IF seq = <<>> THEN 0
    ELSE Head(seq).value * Head(seq).size + SumWeighted(Tail(seq))

RECURSIVE SumSizes(_)
SumSizes(seq) == IF seq = <<>> THEN 0 ELSE Head(seq).size + SumSizes(Tail(seq))

C8_BatchWeightedAverage ==
    (pc = "metric_done" /\ total >= 1) =>
        /\ result.st = "returned"
        /\ result.num = SumWeighted(batches)
        /\ result.den = total
        /\ SumSizes(batches) = total
        /\ \A i \in 1..(Len(batches) - 1) : batches[i].size = batch_size
        /\ batches[Len(batches)].size \in 1..batch_size

\* batches of 10 and 3 with values 0.8 and 0.5 give 9.5 / 13, not 0.65
C8_Witness ==
    /\ pc = "metric_done"
    /\ batches = <<[value |-> 8, size |-> 10], [value |-> 5, size |-> 3]>>
    /\ result = [st |-> "returned", num |-> 95, den |-> 13]
    /\ result.num * 2 # (8 + 5) * result.den

\* C9 as stated: an access with an index in range returns two tensors whose
\* heights are the target height, whatever the sizes of the two images.
C9_AccessAlwaysReturns ==
    InRange =>
        /\ item.st = "returned"
        /\ item.gt.h = height
        /\ item.pred.h = height

\* C9 amended: an access with an index in range returns two tensors of the
\* target height when w * height >= h for both images, and raises otherwise.
C9_ReturnsUnlessWidthVanishes ==
    InRange =>
        IF /\ item.gt_in.w * height >= item.gt_in.h
           /\ item.pred_in.w * height >= item.pred_in.h
        THEN /\ item.st = "returned"
             /\ item.gt.h = height
             /\ item.pred.h = height
             /\ item.gt.h = item.pred.h
        ELSE item.st = "raised"

\* two images of different aspect ratios: equal heights, different widths
C9_Witness ==
    /\ InRange
    /\ item.st = "returned"
    /\ item.gt_in.w * item.pred_in.h # item.pred_in.w * item.gt_in.h
    /\ item.gt_in.h # height
    /\ item.gt.h = item.pred.h
    /\ item.gt.w # item.pred.w

\* C10 as stated: resize gives height H and width round(w * H / h); checked on
\* the images resize did produce.
C10_WidthIsRounded ==
    (InRange /\ item.st = "returned") =>
        /\ item.gt.h = height
        /\ item.gt.w = NewWidthRounded(item.gt_in.w, item.gt_in.h, height)
        /\ item.pred.h = height
        /\ item.pred.w = NewWidthRounded(item.pred_in.w, item.pred_in.h, height)

\* C10 amended: resize gives height H and the width w * H / h rounded down, the
\* largest integer n with n * h <= w * H, when that is at least 1; it raises
\* when it is 0.
WidthIsFloor(out, in) ==
    /\ out.h = height
    /\ out.w >= 1
    /\ out.w * in.h <= in.w * height
    /\ in.w * height < (out.w + 1) * in.h

C10_WidthIsTruncated ==
    InRange =>
        /\ item.st = "returned" =>
              /\ WidthIsFloor(item.gt, item.gt_in)
              /\ WidthIsFloor(item.pred, item.pred_in)
        /\ item.st = "raised" <=>
              \/ item.gt_in.w * height < item.gt_in.h
              \/ item.pred_in.w * height < item.pred_in.h

\* a width that rounding to nearest would have made one larger
C10_Witness ==
    /\ InRange
    /\ item.st = "returned"
    /\ 2 * ((item.gt_in.w * height) % item.gt_in.h) > item.gt_in.h
    /\ item.gt.w + 1 = NewWidthRounded(item.gt_in.w, item.gt_in.h, height)

====
